---- MODULE Spec2Model ----
(***************************************************************************)
(* Ledger of the personal finance tracker: the DataProvider of the React   *)
(* application (accounts, categories, transactions, budgets persisted in   *)
(* localStorage), the three transaction operations that keep account       *)
(* balances in step with the transaction list, the settings-page handlers  *)
(* that guard the deletion of categories and accounts and the edit of a    *)
(* balance, and the budgets page with the spending it shows per budget.    *)
(*                                                                         *)
(* Money is a JavaScript number.  The number inputs of the forms carry no  *)
(* step attribute, so a submitted amount is a whole number, and whole      *)
(* numbers below 2^53 add and subtract exactly: amounts and balances are   *)
(* integers here.  Fields no operation reads (name, icon, color,           *)
(* description) are left out of the records.                               *)
(***************************************************************************)
EXTENDS Integers, Sequences, FiniteSets, TLC

VARIABLES
  accounts,        \* Account[]      (useLocalStorage 'accounts')
  categories,      \* Category[]     (useLocalStorage 'categories')
  transactions,    \* Transaction[]  (useLocalStorage 'transactions')
  budgets,         \* Budget[]       (useLocalStorage 'budgets')
  storage,         \* window.localStorage: key -> <<>> (absent) or <<value>>
  idClock,         \* how many ids generateId has handed out
  openingBalance,  \* history: account id -> balance the account was given
  misses,          \* history: calls that named an id no record carries
  refusals,        \* history: categories whose deletion was refused
  lastOp           \* history: the operation that ran last, and how it ended

vars == <<accounts, categories, transactions, budgets, storage, idClock,
          openingBalance, misses, refusals, lastOp>>

----------------------------------------------------------------------------
(* Bounds of the model. *)

\* generateId is called at most MaxId times, so that at most MaxId
\* transactions are ever added.
MaxId == 2
\* At most MaxMisses calls name an id that no stored transaction carries.
MaxMisses == 1

----------------------------------------------------------------------------
(* types.ts *)

INCOME == "income"
EXPENSE == "expense"
CategoryType == {INCOME, EXPENSE}

\* An id is a pair <<prefix, number>>: <<"acc", 1>> is 'acc-1', <<"id", n>> is
\* the n-th id generateId made, EmptyId is '' and UnknownId is an id that no
\* record of any collection carries.
EmptyId == <<"", 0>>
UnknownId == <<"unknown", 0>>

generateId(n) == <<"id", n>>

----------------------------------------------------------------------------
(* constants.ts *)

DEFAULT_INITIAL_CATEGORIES ==
  << [id |-> <<"cat-exp", 1>>, type |-> EXPENSE],
     [id |-> <<"cat-exp", 2>>, type |-> EXPENSE],
     [id |-> <<"cat-exp", 3>>, type |-> EXPENSE],
     [id |-> <<"cat-exp", 4>>, type |-> EXPENSE],
     [id |-> <<"cat-exp", 5>>, type |-> EXPENSE],
     [id |-> <<"cat-exp", 6>>, type |-> EXPENSE],
     [id |-> <<"cat-exp", 7>>, type |-> EXPENSE],
     [id |-> <<"cat-inc", 1>>, type |-> INCOME],
     [id |-> <<"cat-inc", 2>>, type |-> INCOME],
     [id |-> <<"cat-inc", 3>>, type |-> INCOME] >>

DEFAULT_INITIAL_ACCOUNTS ==
  << [id |-> <<"acc", 1>>, balance |-> 10000000],
     [id |-> <<"acc", 2>>, balance |-> 500000],
     [id |-> <<"acc", 3>>, balance |-> 200000] >>

----------------------------------------------------------------------------
(* Sequence helpers: Array.prototype.map / filter / find / some / sort. *)

Range(s) == {s[i] : i \in DOMAIN s}

Ids(s) == {s[i].id : i \in DOMAIN s}

\* Array.prototype.find by id: <<>> for undefined, <<record>> otherwise.
FindById(s, id) ==
  LET hit(r) == r.id = id
      found == SelectSeq(s, hit)
  IN  IF found = <<>> THEN <<>> ELSE <<Head(found)>>

\* Array.prototype.filter(r => r.id !== id)
RemoveById(s, id) ==
  LET keep(r) == r.id # id
  IN  SelectSeq(s, keep)

\* Array.prototype.map(r => r.id === u.id ? u : r)
ReplaceById(s, u) == [i \in DOMAIN s |-> IF s[i].id = u.id THEN u ELSE s[i]]

\* A slip: the comparator with its operands exchanged (date ascending).
compareDateAsc(a, b) == a.date - b.date

\* The comparator (a, b) => new Date(b.date).getTime() - new Date(a.date).getTime():
\* negative when a is to come before b.  A date is its day number.
compareDateDesc(a, b) == b.date - a.date

\* One insertion of the stable sort: r goes after every element that does
\* not compare greater than it.
RECURSIVE InsertSorted(_, _)
InsertSorted(r, s) ==
  IF s = <<>> THEN <<r>>
  ELSE IF compareDateDesc(Head(s), r) <= 0
       THEN <<Head(s)>> \o InsertSorted(r, Tail(s))
       ELSE <<r>> \o s

\* Array.prototype.sort with compareDateDesc: stable, by date descending.
RECURSIVE SortByDateDesc(_)
SortByDateDesc(s) ==
  IF s = <<>> THEN <<>>
  ELSE InsertSorted(s[Len(s)], SortByDateDesc(SubSeq(s, 1, Len(s) - 1)))

----------------------------------------------------------------------------
(* useLocalStorage *)

KEYS == {"accounts", "categories", "transactions", "budgets"}

\* A slip: the stored item is not looked at.
useLocalStorageIgnoringItem(store, key, initialValue) == initialValue

\* The initial state of the hook: the parsed item if the key is present,
\* the initial value otherwise.  JSON.parse(JSON.stringify(v)) is v for the
\* records of this model (strings and finite numbers only).
useLocalStorage(store, key, initialValue) ==
  IF store[key] = <<>> THEN initialValue ELSE store[key][1]

\* A slip: the account list is never written.
setItemExceptAccounts(store, written) ==
  [k \in KEYS |-> IF k \in DOMAIN written /\ k # "accounts"
                    THEN <<written[k]>> ELSE store[k]]

\* window.localStorage.setItem(key, JSON.stringify(valueToStore)) for each
\* key of `written` (a function from the keys written to their new values).
setItem(store, written) ==
  [k \in KEYS |-> IF k \in DOMAIN written THEN <<written[k]>> ELSE store[k]]

----------------------------------------------------------------------------
(* DataProvider: the three transaction operations.  Each runs in one event *)
(* handler; the component re-renders before the next handler runs, so the  *)
(* storedValue a setter reads is the current value of its collection.      *)

\* A slip: the change of an add taken as the bare amount, whatever the type.
addBalanceChangeUnsigned(transaction) == transaction.amount

\* addTransaction: balanceChange of the new record
addBalanceChange(transaction) ==
  IF transaction.type = INCOME THEN transaction.amount ELSE -transaction.amount

\* A slip: the impact of an update taken as the bare amount.
updateImpactUnsigned(transaction) == transaction.amount

\* updateTransaction: oldImpact / newImpact
updateImpact(transaction) ==
  IF transaction.type = INCOME THEN transaction.amount ELSE -transaction.amount

\* A slip: the change of a delete given the sign of an add.
deleteBalanceChangeAsAdd(transactionToDelete) ==
  IF transactionToDelete.type = INCOME
    THEN transactionToDelete.amount
    ELSE -transactionToDelete.amount

\* deleteTransaction: balanceChange of the record to delete
deleteBalanceChange(transactionToDelete) ==
  IF transactionToDelete.type = INCOME
    THEN -transactionToDelete.amount
    ELSE transactionToDelete.amount

\* { ...transaction, id }
WithId(transaction, id) ==
  [id |-> id, date |-> transaction.date, amount |-> transaction.amount,
   type |-> transaction.type, categoryId |-> transaction.categoryId,
   accountId |-> transaction.accountId]

\* A slip: the id test of the map left out, every account changed.
addTransactionAllAccounts(prevAccounts, transaction) ==
  [i \in DOMAIN prevAccounts |->
     [prevAccounts[i] EXCEPT
        !.balance = prevAccounts[i].balance + transaction.amount]]

\* A slip: when no account carries the record's accountId, the first account
\* takes the change.
addTransactionAccountsOrFirst(prevAccounts, transaction) ==
  [i \in DOMAIN prevAccounts |->
     LET acc == prevAccounts[i] IN
     IF \/ acc.id = transaction.accountId
        \/ (i = 1 /\ transaction.accountId \notin Ids(prevAccounts))
       THEN [acc EXCEPT !.balance = acc.balance + addBalanceChange(transaction)]
       ELSE acc]

addTransactionAccounts(prevAccounts, transaction) ==
  [i \in DOMAIN prevAccounts |->
     LET acc == prevAccounts[i] IN
     IF acc.id = transaction.accountId
       THEN [acc EXCEPT !.balance = acc.balance + addBalanceChange(transaction)]
       ELSE acc]

\* A slip: the record is stored and the balance is left for later.
addTransactionRecordOnly(transaction) ==
  LET newTransaction == WithId(transaction, generateId(idClock + 1))
      txs == SortByDateDesc(<<newTransaction>> \o transactions)
  IN  /\ idClock' = idClock + 1
      /\ transactions' = txs
      /\ storage' = setItem(storage, [transactions |-> txs])
      /\ UNCHANGED <<accounts, categories, budgets>>

\* addTransaction: setTransactions, then setAccounts, in the one handler.
addTransaction(transaction) ==
  LET newTransaction == WithId(transaction, generateId(idClock + 1))
      txs == SortByDateDesc(<<newTransaction>> \o transactions)
      accs == addTransactionAccounts(accounts, transaction)
  IN  /\ idClock' = idClock + 1
      /\ transactions' = txs
      /\ accounts' = accs
      /\ storage' = setItem(storage, [transactions |-> txs, accounts |-> accs])
      /\ UNCHANGED <<categories, budgets>>

\* A slip: the old record's impact is not taken off its account.
updateTransactionAccountsNoRevert(prevAccounts, oldTransaction, updatedTransaction) ==
  [i \in DOMAIN prevAccounts |->
     LET acc == prevAccounts[i] IN
     IF updatedTransaction.accountId = acc.id
       THEN [acc EXCEPT !.balance =
               acc.balance + (IF updatedTransaction.type = INCOME
                                THEN updatedTransaction.amount
                                ELSE -updatedTransaction.amount)]
       ELSE acc]

updateTransactionAccounts(prevAccounts, oldTransaction, updatedTransaction) ==
  [i \in DOMAIN prevAccounts |->
     LET acc == prevAccounts[i]
         reverted ==
           IF oldTransaction # <<>> /\ oldTransaction[1].accountId = acc.id
             THEN acc.balance - updateImpact(oldTransaction[1])
             ELSE acc.balance
         newBalance ==
           IF updatedTransaction.accountId = acc.id
             THEN reverted + updateImpact(updatedTransaction)
             ELSE reverted
     IN  [acc EXCEPT !.balance = newBalance]]

updateTransaction(updatedTransaction) ==
  LET oldTransaction == FindById(transactions, updatedTransaction.id)
      txs == SortByDateDesc(ReplaceById(transactions, updatedTransaction))
      accs == updateTransactionAccounts(accounts, oldTransaction, updatedTransaction)
  IN  /\ transactions' = txs
      /\ accounts' = accs
      /\ storage' = setItem(storage, [transactions |-> txs, accounts |-> accs])
      /\ UNCHANGED <<categories, budgets, idClock>>

deleteTransactionAccounts(prevAccounts, transactionToDelete) ==
  [i \in DOMAIN prevAccounts |->
     LET acc == prevAccounts[i] IN
     IF acc.id = transactionToDelete.accountId
       THEN [acc EXCEPT !.balance = acc.balance + deleteBalanceChange(transactionToDelete)]
       ELSE acc]

\* A slip: when no record carries the id, the first record is taken for it.
deleteTransactionResultOrFirst(txs, accs, transactionId) ==
  LET transactionToDelete ==
        IF FindById(txs, transactionId) # <<>> THEN FindById(txs, transactionId)
        ELSE IF txs # <<>> THEN <<txs[1]>>
        ELSE <<>>
  IN  [transactions |-> RemoveById(txs, transactionId),
       accounts |-> IF transactionToDelete # <<>>
                      THEN deleteTransactionAccounts(accs, transactionToDelete[1])
                      ELSE accs,
       written |-> IF transactionToDelete # <<>>
                     THEN {"transactions", "accounts"}
                     ELSE {"transactions"}]

\* The transactions and accounts deleteTransaction(transactionId) leaves,
\* called where the collections are txs and accs.
deleteTransactionResult(txs, accs, transactionId) ==
  LET transactionToDelete == FindById(txs, transactionId)
  IN  [transactions |-> RemoveById(txs, transactionId),
       accounts |-> IF transactionToDelete # <<>>
                      THEN deleteTransactionAccounts(accs, transactionToDelete[1])
                      ELSE accs,
       \* the keys written: setAccounts runs only when the record was found
       written |-> IF transactionToDelete # <<>>
                     THEN {"transactions", "accounts"}
                     ELSE {"transactions"}]

deleteTransaction(transactionId) ==
  LET r == deleteTransactionResult(transactions, accounts, transactionId)
  IN  /\ transactions' = r.transactions
      /\ accounts' = r.accounts
      /\ storage' = setItem(storage, [k \in r.written |-> r[k]])
      /\ UNCHANGED <<categories, budgets, idClock>>

----------------------------------------------------------------------------
(* DataProvider: accounts and categories. *)

deleteAccount(accountId) ==
  LET accs == RemoveById(accounts, accountId)
  IN  /\ accounts' = accs
      /\ storage' = setItem(storage, [accounts |-> accs])
      /\ UNCHANGED <<categories, transactions, budgets, idClock>>

deleteCategory(categoryId) ==
  LET cats == RemoveById(categories, categoryId)
  IN  /\ categories' = cats
      /\ storage' = setItem(storage, [categories |-> cats])
      /\ UNCHANGED <<accounts, transactions, budgets, idClock>>

----------------------------------------------------------------------------
(* Inputs of the model. *)

\* Amounts a caller passes (IDR).
Amounts == {50000, 200000}
\* Dates, as day numbers.
Dates == {1}
\* Account ids a caller passes.  Both are seed accounts; the second is the
\* id of no account when the persisted account list holds only the first.
AccountIdsPassed == {<<"acc", 1>>, <<"acc", 2>>}
\* Category ids a caller passes for a record.
CategoryIdsPassed == {<<"cat-exp", 1>>}

Drafts ==
  [date : Dates, amount : Amounts, type : CategoryType,
   categoryId : CategoryIdsPassed, accountId : AccountIdsPassed]

\* Records a caller passes to updateTransaction together with an id that no
\* stored transaction carries.
DraftsPassedWithMissingId ==
  {d \in Drafts : d.amount = 50000 /\ d.accountId = <<"acc", 1>>}

\* Ids a caller of updateTransaction / deleteTransaction may hold: every id
\* generateId has made so far, and one it never made.
TransactionIdsPassed == {generateId(n) : n \in 1..idClock} \cup {UnknownId}

\* What localStorage holds under 'accounts' when the application starts:
\* nothing (first run), or the list an earlier session wrote.
PersistedAccounts ==
  { <<>>,
    << << [id |-> <<"acc", 1>>, balance |-> 1000000] >> >> }

----------------------------------------------------------------------------
(* The ledger under any sequence of calls of its three operations. *)

\* The signed impact of a transaction: +amount for income, -amount for expense.
SignedAmount(tx) == IF tx.type = INCOME THEN tx.amount ELSE 0 - tx.amount

\* The sum of the signed amounts of the transactions of txs on accountId.
RECURSIVE SignedSum(_, _)
SignedSum(txs, accountId) ==
  IF txs = <<>> THEN 0
  ELSE (IF Head(txs).accountId = accountId THEN SignedAmount(Head(txs)) ELSE 0)
       + SignedSum(Tail(txs), accountId)

\* lastOp: op and id name the call and arg is the record passed (<<>> when
\* there is none); found tells whether a stored record carried the id;
\* outcome is what the caller was shown ("returned": the call returned
\* normally, "alert": an alert, "declined": the confirm dialog was
\* declined); note tells the case of the call.
NoOp == [op |-> "none", id |-> EmptyId, arg |-> <<>>, found |-> FALSE,
         outcome |-> "returned", note |-> ""]

Init ==
  /\ storage \in {[k \in KEYS |-> IF k = "accounts" THEN a ELSE <<>>] :
                    a \in PersistedAccounts}
  /\ accounts = useLocalStorage(storage, "accounts", DEFAULT_INITIAL_ACCOUNTS)
  /\ categories = useLocalStorage(storage, "categories", DEFAULT_INITIAL_CATEGORIES)
  /\ transactions = useLocalStorage(storage, "transactions", <<>>)
  /\ budgets = useLocalStorage(storage, "budgets", <<>>)
  /\ idClock = 0
  /\ openingBalance = [id \in Ids(accounts) |->
                         FindById(accounts, id)[1].balance]
  /\ misses = 0
  /\ refusals = {}
  /\ lastOp = NoOp

\* A call naming an id no stored transaction carries counts against MaxMisses.
MissBudget(id) ==
  IF id \in Ids(transactions)
    THEN misses' = misses
    ELSE misses < MaxMisses /\ misses' = misses + 1

\* The case of an updateTransaction call.
UpdateNote(id, updatedTransaction) ==
  LET oldTransaction == FindById(transactions, id)
  IN  IF oldTransaction = <<>> THEN "missing"
      ELSE IF oldTransaction[1].accountId # updatedTransaction.accountId THEN "moved"
      ELSE IF oldTransaction[1].type # updatedTransaction.type THEN "flipped"
      ELSE "kept"

\* The case of a deleteTransaction call: right after the add that made the id?
DeleteNote(id) ==
  IF lastOp.op = "addTransaction" /\ lastOp.id = id THEN "afterAdd" ELSE ""

AddTransaction ==
  \E transaction \in Drafts :
    /\ idClock < MaxId
    /\ addTransaction(transaction)
    /\ lastOp' = [op |-> "addTransaction", id |-> generateId(idClock + 1),
                  arg |-> <<transaction>>, found |-> FALSE,
                  outcome |-> "returned", note |-> ""]
    /\ UNCHANGED <<openingBalance, misses, refusals>>

UpdateTransaction ==
  \E id \in TransactionIdsPassed, transaction \in Drafts :
    /\ id \notin Ids(transactions) => transaction \in DraftsPassedWithMissingId
    /\ MissBudget(id)
    /\ updateTransaction(WithId(transaction, id))
    /\ lastOp' = [op |-> "updateTransaction", id |-> id,
                  arg |-> <<transaction>>, found |-> id \in Ids(transactions),
                  outcome |-> "returned", note |-> UpdateNote(id, transaction)]
    /\ UNCHANGED <<openingBalance, refusals>>

DeleteTransaction ==
  \E id \in TransactionIdsPassed :
    /\ MissBudget(id)
    /\ deleteTransaction(id)
    /\ lastOp' = [op |-> "deleteTransaction", id |-> id, arg |-> <<>>,
                  found |-> id \in Ids(transactions), outcome |-> "returned",
                  note |-> DeleteNote(id)]
    /\ UNCHANGED <<openingBalance, refusals>>

Next ==
  \/ AddTransaction
  \/ UpdateTransaction
  \/ DeleteTransaction

Spec == Init /\ [][Next]_vars

----------------------------------------------------------------------------
(* The pages: what the user can do.  Each action is one event handler, run  *)
(* to its end; the page re-renders before the next one.                     *)

\* TransactionForm: the options of the category select (filteredCategories)
\* and of the account select; the select shows '' when it has no option.
\* The user picks among CategoryIdsPicked and AccountIdsPassed.
CategoryIdsPicked == {<<"cat-exp", 1>>, <<"cat-exp", 2>>, <<"cat-inc", 1>>}

\* A slip: the filter by type left out, the select offers every category.
filteredCategoriesAnyType(type) == categories

\* TransactionForm: categories.filter(c => c.type === type)
filteredCategories(type) ==
  LET ofType(c) == c.type = type
  IN  SelectSeq(categories, ofType)

CategoryOptions(type) ==
  IF filteredCategories(type) = <<>> THEN {EmptyId}
  ELSE Ids(filteredCategories(type)) \cap CategoryIdsPicked

AccountOptions ==
  IF accounts = <<>> THEN {EmptyId}
  ELSE Ids(accounts) \cap AccountIdsPassed

\* The texts of the form's inputs: <<>> is the empty text, <<n>> the text of
\* the number (or of the day) n.
FormStates ==
  UNION { [description : {"x"}, amount : {<<>>, <<50000>>}, date : {<<1>>},
           type : {type}, categoryId : CategoryOptions(type),
           accountId : AccountOptions] : type \in CategoryType }

\* TransactionForm.handleSubmit: !description || !amount || !date ||
\* !categoryId || !accountId
formIncomplete(form) ==
  \/ form.description = ""
  \/ form.amount = <<>>
  \/ form.date = <<>>
  \/ form.categoryId = EmptyId
  \/ form.accountId = EmptyId

\* parseFloat of the text of a number
parseFloat(text) == text[1]

\* new Date(date).toISOString() of the text of a day: that day, at midnight
\* UTC; a date of the model is the day number.
toISOString(text) == text[1]

\* The record handleSubmit passes to onSubmit.
transactionData(form) ==
  [date |-> toISOString(form.date), amount |-> parseFloat(form.amount),
   type |-> form.type, categoryId |-> form.categoryId,
   accountId |-> form.accountId]

\* TransactionsPage.handleSubmitTransaction: { ...editingTransaction,
\* ...transactionData } keeps the id of the record that is edited.
handleSubmitTransaction(editingTransaction, data) ==
  IF editingTransaction # <<>>
    THEN updateTransaction(WithId(data, editingTransaction[1].id))
    ELSE addTransaction(data)

\* TransactionsPage.handleDeleteTransaction
handleDeleteTransaction(transactionId, confirmed) ==
  IF confirmed
    THEN deleteTransaction(transactionId)
    ELSE UNCHANGED <<accounts, categories, transactions, budgets, storage, idClock>>

\* A slip: the guard looks through the budgets, not the transactions.
categoryHasBudgets(categoryId) ==
  \E i \in DOMAIN budgets : budgets[i].categoryId = categoryId

\* transactions.some(tx => tx.categoryId === categoryId)
categoryHasTransactions(categoryId) ==
  \E i \in DOMAIN transactions : transactions[i].categoryId = categoryId

\* A slip: the alert also when a budget refers to the category.
handleDeleteOutcomeWithBudgets(categoryId, confirmed) ==
  IF categoryHasTransactions(categoryId) \/ categoryHasBudgets(categoryId)
    THEN "alert"
  ELSE IF confirmed THEN "returned" ELSE "declined"

\* What CategoryManagement.handleDelete shows: the alert when a transaction
\* refers to the category, else the confirm dialog, answered by `confirmed`.
handleDeleteOutcome(categoryId, confirmed) ==
  IF categoryHasTransactions(categoryId) THEN "alert"
  ELSE IF confirmed THEN "returned" ELSE "declined"

\* A slip: the handler without its test of the transactions.
handleDeleteUnguarded(categoryId, confirmed) ==
  IF confirmed
    THEN deleteCategory(categoryId)
    ELSE UNCHANGED <<accounts, categories, transactions, budgets, storage, idClock>>

\* CategoryManagement.handleDelete.  The delete button of the list is also
\* disabled under the condition of the alert; the handler does not rely on it.
handleDelete(categoryId, confirmed) ==
  IF handleDeleteOutcome(categoryId, confirmed) = "returned"
    THEN deleteCategory(categoryId)
    ELSE UNCHANGED <<accounts, categories, transactions, budgets, storage, idClock>>

\* A slip: the button compares the category of the transactions.
accountDeleteDisabledByCategory(accountId) ==
  \E i \in DOMAIN transactions : transactions[i].categoryId = accountId

\* AccountManagement: the disabled attribute of an account's delete button.
accountDeleteDisabled(accountId) ==
  \E i \in DOMAIN transactions : transactions[i].accountId = accountId

\* Categories whose delete button the user presses.
CategoryIdsDeleted == {<<"cat-exp", 1>>, <<"cat-inc", 1>>}

SubmitTransactionForm ==
  \E editingTransaction \in {<<>>} \cup {<<t>> : t \in Range(transactions)},
     form \in FormStates :
    /\ (editingTransaction = <<>> /\ ~formIncomplete(form)) => idClock < MaxId
    /\ IF formIncomplete(form)
         THEN UNCHANGED <<accounts, categories, transactions, budgets, storage, idClock>>
         ELSE handleSubmitTransaction(editingTransaction, transactionData(form))
    /\ lastOp' = [op |-> "handleSubmit",
                  id |-> IF editingTransaction # <<>> THEN editingTransaction[1].id
                         ELSE IF formIncomplete(form) THEN EmptyId
                         ELSE generateId(idClock + 1),
                  arg |-> <<>>,
                  found |-> editingTransaction # <<>>,
                  outcome |-> IF formIncomplete(form) THEN "alert" ELSE "returned",
                  note |-> IF editingTransaction # <<>> THEN "edit" ELSE "add"]
    /\ UNCHANGED <<openingBalance, misses, refusals>>

ClickDeleteTransaction ==
  \E transactionId \in Ids(transactions), confirmed \in BOOLEAN :
    /\ handleDeleteTransaction(transactionId, confirmed)
    /\ lastOp' = [op |-> "handleDeleteTransaction", id |-> transactionId,
                  arg |-> <<>>, found |-> TRUE,
                  outcome |-> IF confirmed THEN "returned" ELSE "declined",
                  note |-> ""]
    /\ UNCHANGED <<openingBalance, misses, refusals>>

ClickDeleteCategory ==
  \E categoryId \in Ids(categories) \cap CategoryIdsDeleted, confirmed \in BOOLEAN :
    /\ handleDelete(categoryId, confirmed)
    /\ lastOp' = [op |-> "handleDelete", id |-> categoryId, arg |-> <<>>,
                  found |-> TRUE,
                  outcome |-> handleDeleteOutcome(categoryId, confirmed),
                  note |-> ""]
    /\ refusals' = IF handleDeleteOutcome(categoryId, confirmed) = "alert"
                     THEN refusals \cup {categoryId}
                     ELSE refusals
    /\ UNCHANGED <<openingBalance, misses>>

ClickDeleteAccount ==
  \E accountId \in Ids(accounts) \cap AccountIdsPassed :
    /\ ~accountDeleteDisabled(accountId)
    /\ deleteAccount(accountId)
    /\ lastOp' = [op |-> "deleteAccount", id |-> accountId, arg |-> <<>>,
                  found |-> TRUE, outcome |-> "returned", note |-> ""]
    /\ openingBalance' = [id \in DOMAIN openingBalance \ {accountId} |->
                            openingBalance[id]]
    /\ UNCHANGED <<misses, refusals>>

NextUI ==
  \/ SubmitTransactionForm
  \/ ClickDeleteTransaction
  \/ ClickDeleteCategory
  \/ ClickDeleteAccount

SpecUI == Init /\ [][NextUI]_vars

----------------------------------------------------------------------------
(* DataProvider: addAccount / updateAccount, and the account form of the    *)
(* settings page.  The form lives in a modal that covers the page: between  *)
(* handleOpenModal and handleSubmit no other handler runs, so the record    *)
(* being edited is a record of the current account list and the text of    *)
(* an input the user cannot type in is the text handleOpenModal put there.  *)

\* [...prev, { ...account, id: generateId() }]
addAccount(account) ==
  LET accs == Append(accounts, [id |-> generateId(idClock + 1),
                                balance |-> account.balance])
  IN  /\ idClock' = idClock + 1
      /\ accounts' = accs
      /\ storage' = setItem(storage, [accounts |-> accs])
      /\ UNCHANGED <<categories, transactions, budgets>>

\* prev.map(acc => acc.id === updatedAccount.id ? updatedAccount : acc)
updateAccount(updatedAccount) ==
  LET accs == ReplaceById(accounts, updatedAccount)
  IN  /\ accounts' = accs
      /\ storage' = setItem(storage, [accounts |-> accs])
      /\ UNCHANGED <<categories, transactions, budgets, idClock>>

\* Number.prototype.toString: the text of the number n.
numberToString(n) == <<n>>

\* A slip: the input looks for the account among the categories of the
\* transactions.
balanceInputDisabledByCategory(editingAccount) ==
  /\ editingAccount # <<>>
  /\ \E i \in DOMAIN transactions :
       transactions[i].categoryId = editingAccount[1].id

\* The disabled attribute of the balance input: !!editingAccount &&
\* transactions.some(tx => tx.accountId === editingAccount.id)
balanceInputDisabled(editingAccount) ==
  /\ editingAccount # <<>>
  /\ \E i \in DOMAIN transactions :
       transactions[i].accountId = editingAccount[1].id

\* handleOpenModal: the text the balance input starts with,
\* account?.balance?.toString() || '0'
openedBalanceText(editingAccount) ==
  IF editingAccount = <<>> THEN numberToString(0)
  ELSE numberToString(editingAccount[1].balance)

\* Texts the user types into the balance input (<<>> is the empty text).
BalanceTexts == {<<>>, <<0>>}

\* The states the form can be in when it is submitted: the name typed or
\* emptied, the balance typed unless the input is disabled.
AccountFormStates(editingAccount) ==
  [name : {"", "x"},
   balance : IF balanceInputDisabled(editingAccount)
               THEN {openedBalanceText(editingAccount)}
               ELSE BalanceTexts \cup {openedBalanceText(editingAccount)}]

\* AccountManagement.handleSubmit: !name || balance === ''
accountFormIncomplete(form) == form.name = "" \/ form.balance = <<>>

\* AccountManagement.handleSubmit
handleSubmitAccount(editingAccount, form) ==
  IF accountFormIncomplete(form)
    THEN UNCHANGED <<accounts, categories, transactions, budgets, storage, idClock>>
  ELSE IF editingAccount # <<>>
    THEN updateAccount([id |-> editingAccount[1].id,
                        balance |-> parseFloat(form.balance)])
    ELSE addAccount([balance |-> parseFloat(form.balance)])

\* The opening balances after the account form was submitted: a new account
\* opens with its balance, an edit moves the opening balance by the change.
openingAfterAccountForm(editingAccount, form) ==
  IF accountFormIncomplete(form) THEN openingBalance
  ELSE IF editingAccount # <<>>
    THEN [openingBalance EXCEPT ![editingAccount[1].id] =
            @ + parseFloat(form.balance) - editingAccount[1].balance]
    ELSE [id \in DOMAIN openingBalance \cup {generateId(idClock + 1)} |->
            IF id \in DOMAIN openingBalance THEN openingBalance[id]
            ELSE parseFloat(form.balance)]

SubmitAccountForm ==
  \E editingAccount \in {<<>>} \cup {<<a>> : a \in Range(accounts)} :
    \E form \in AccountFormStates(editingAccount) :
      /\ (editingAccount = <<>> /\ ~accountFormIncomplete(form)) => idClock < MaxId
      /\ handleSubmitAccount(editingAccount, form)
      /\ lastOp' = [op |-> IF accountFormIncomplete(form) THEN "handleSubmitAccount"
                           ELSE IF editingAccount # <<>> THEN "updateAccount"
                           ELSE "addAccount",
                    id |-> IF editingAccount # <<>> THEN editingAccount[1].id
                           ELSE IF accountFormIncomplete(form) THEN EmptyId
                           ELSE generateId(idClock + 1),
                    arg |-> <<>>,
                    found |-> editingAccount # <<>>,
                    outcome |-> "returned",
                    note |-> IF balanceInputDisabled(editingAccount)
                               THEN "referenced" ELSE "free"]
      /\ openingBalance' = openingAfterAccountForm(editingAccount, form)
      /\ UNCHANGED <<misses, refusals>>

NextAccounts ==
  \/ SubmitTransactionForm
  \/ ClickDeleteTransaction
  \/ SubmitAccountForm
  \/ ClickDeleteAccount

SpecAccounts == Init /\ [][NextAccounts]_vars

----------------------------------------------------------------------------
(* The transaction list under calls that differ in their dates. *)

\* Dates of the records passed, as day numbers.
DatesPassed == {1, 2, 3}

DatedDrafts ==
  [date : DatesPassed, amount : {50000}, type : CategoryType,
   categoryId : CategoryIdsPassed, accountId : {<<"acc", 1>>}]

AddDatedTransaction ==
  \E transaction \in DatedDrafts :
    /\ idClock < MaxId
    /\ addTransaction(transaction)
    /\ lastOp' = [op |-> "addTransaction", id |-> generateId(idClock + 1),
                  arg |-> <<transaction>>, found |-> FALSE,
                  outcome |-> "returned", note |-> ""]
    /\ UNCHANGED <<openingBalance, misses, refusals>>

UpdateDatedTransaction ==
  \E id \in Ids(transactions), transaction \in DatedDrafts :
    /\ updateTransaction(WithId(transaction, id))
    /\ lastOp' = [op |-> "updateTransaction", id |-> id,
                  arg |-> <<transaction>>, found |-> TRUE,
                  outcome |-> "returned",
                  note |-> IF FindById(transactions, id)[1].date # transaction.date
                             THEN "redated" ELSE "kept"]
    /\ UNCHANGED <<openingBalance, misses, refusals>>

DeleteDatedTransaction ==
  \E id \in Ids(transactions) :
    /\ deleteTransaction(id)
    /\ lastOp' = [op |-> "deleteTransaction", id |-> id, arg |-> <<>>,
                  found |-> TRUE, outcome |-> "returned", note |-> ""]
    /\ UNCHANGED <<openingBalance, misses, refusals>>

NextOrder ==
  \/ AddDatedTransaction
  \/ UpdateDatedTransaction
  \/ DeleteDatedTransaction

SpecOrder == Init /\ [][NextOrder]_vars

----------------------------------------------------------------------------
(* Date: a date is the number of its day, day 1 being 2024-01-01; months   *)
(* are numbered from 0 as getMonth numbers them.  The dates of the records *)
(* are midnights UTC (the forms store new Date('YYYY-MM-DD').toISOString()) *)
(* and the calendar below is the UTC one.                                  *)

Years == 2024..2026

isLeapYear(y) == y % 4 = 0 /\ (y % 100 # 0 \/ y % 400 = 0)

daysInYear(y) == IF isLeapYear(y) THEN 366 ELSE 365

daysInMonth(y, m) ==
  IF m = 1 THEN (IF isLeapYear(y) THEN 29 ELSE 28)
  ELSE IF m \in {3, 5, 8, 10} THEN 30
  ELSE 31

\* The days of the years 2024 .. y - 1.
RECURSIVE daysBeforeYear(_)
daysBeforeYear(y) ==
  IF y <= 2024 THEN 0 ELSE daysBeforeYear(y - 1) + daysInYear(y - 1)

\* The days of the months 0 .. m - 1 of the year y.
RECURSIVE daysBeforeMonth(_, _)
daysBeforeMonth(y, m) ==
  IF m = 0 THEN 0 ELSE daysBeforeMonth(y, m - 1) + daysInMonth(y, m - 1)

\* MakeDay of ECMAScript: the day of (year, month, date), where a month
\* beyond 11 runs into the next year and a date beyond the month's last day
\* runs into the next month.
MakeDay(year, month, date) ==
  LET y == year + (month \div 12)
      m == month % 12
  IN  daysBeforeYear(y) + daysBeforeMonth(y, m) + date

getFullYear(day) ==
  CHOOSE y \in Years : daysBeforeYear(y) < day /\ day <= daysBeforeYear(y + 1)

getMonth(day) ==
  LET y == getFullYear(day)
      inYear == day - daysBeforeYear(y)
  IN  CHOOSE m \in 0..11 :
        daysBeforeMonth(y, m) < inYear
          /\ inYear <= daysBeforeMonth(y, m) + daysInMonth(y, m)

getDate(day) ==
  day - daysBeforeYear(getFullYear(day))
      - daysBeforeMonth(getFullYear(day), getMonth(day))

\* Date.prototype.setMonth / setFullYear: the other fields are kept and the
\* whole is normalised by MakeDay.
setMonth(day, month) == MakeDay(getFullYear(day), month, getDate(day))

setFullYear(day, year) == MakeDay(year, getMonth(day), getDate(day))

----------------------------------------------------------------------------
(* Budgets: DataProvider's addBudget / updateBudget / deleteBudget, the     *)
(* budget form and what BudgetsPage shows of each budget.                   *)

MONTHLY == "monthly"
YEARLY == "yearly"
BudgetPeriod == {MONTHLY, YEARLY}

\* { ...budget, id }
BudgetWithId(budget, id) ==
  [id |-> id, categoryId |-> budget.categoryId, amount |-> budget.amount,
   period |-> budget.period, startDate |-> budget.startDate]

addBudget(budget) ==
  LET bs == Append(budgets, BudgetWithId(budget, generateId(idClock + 1)))
  IN  /\ idClock' = idClock + 1
      /\ budgets' = bs
      /\ storage' = setItem(storage, [budgets |-> bs])
      /\ UNCHANGED <<accounts, categories, transactions>>

updateBudget(updatedBudget) ==
  LET bs == ReplaceById(budgets, updatedBudget)
  IN  /\ budgets' = bs
      /\ storage' = setItem(storage, [budgets |-> bs])
      /\ UNCHANGED <<accounts, categories, transactions, idClock>>

deleteBudget(budgetId) ==
  LET bs == RemoveById(budgets, budgetId)
  IN  /\ budgets' = bs
      /\ storage' = setItem(storage, [budgets |-> bs])
      /\ UNCHANGED <<accounts, categories, transactions, idClock>>

\* BudgetForm: the options of the category select.
expenseCategories == filteredCategories(EXPENSE)

\* The days the user picks as start date: 2024-01-31.
StartDatesPicked == {MakeDay(2024, 0, 31)}

\* The states of the budget form when it is submitted.  The category is the
\* one the form selects by itself: that of the budget being edited, else the
\* first expense category ('' if there is none).
BudgetFormStates(editingBudget) ==
  [categoryId : {IF editingBudget # <<>> THEN editingBudget[1].categoryId
                 ELSE IF expenseCategories # <<>> THEN expenseCategories[1].id
                 ELSE EmptyId},
   amount : {<<>>, <<0>>, <<100>>},
   period : BudgetPeriod,
   startDate : {<<d>> : d \in StartDatesPicked}]

\* BudgetForm.handleSubmit: !categoryId || !amount || !period || !startDate
budgetFormIncomplete(form) ==
  \/ form.categoryId = EmptyId
  \/ form.amount = <<>>
  \/ form.startDate = <<>>

\* The record BudgetForm.handleSubmit passes to onSubmit.
budgetData(form) ==
  [categoryId |-> form.categoryId, amount |-> parseFloat(form.amount),
   period |-> form.period, startDate |-> toISOString(form.startDate)]

\* BudgetsPage.handleSubmitBudget
handleSubmitBudget(editingBudget, data) ==
  IF editingBudget # <<>>
    THEN updateBudget(BudgetWithId(data, editingBudget[1].id))
    ELSE addBudget(data)

\* BudgetsPage.handleDeleteBudget
handleDeleteBudget(budgetId, confirmed) ==
  IF confirmed
    THEN deleteBudget(budgetId)
    ELSE UNCHANGED <<accounts, categories, transactions, budgets, storage, idClock>>

\* getActualSpending: budgetStartDate and budgetEndDate
budgetStartDate(budget) == budget.startDate

budgetEndDate(budget) ==
  IF budget.period = MONTHLY
    THEN setMonth(budgetStartDate(budget), getMonth(budgetStartDate(budget)) + 1)
    ELSE setFullYear(budgetStartDate(budget), getFullYear(budgetStartDate(budget)) + 1)

\* A slip: the end of the window counted in.
spendingFilterEndInclusive(budget, tx) ==
  /\ tx.categoryId = budget.categoryId
  /\ tx.type = EXPENSE
  /\ tx.date >= budgetStartDate(budget)
  /\ tx.date <= budgetEndDate(budget)

\* getActualSpending: the predicate of the filter
spendingFilter(budget, tx) ==
  /\ tx.categoryId = budget.categoryId
  /\ tx.type = EXPENSE
  /\ tx.date >= budgetStartDate(budget)
  /\ tx.date < budgetEndDate(budget)

\* .reduce((sum, tx) => sum + tx.amount, 0)
RECURSIVE reduceAmount(_)
reduceAmount(txs) ==
  IF txs = <<>> THEN 0
  ELSE reduceAmount(SubSeq(txs, 1, Len(txs) - 1)) + txs[Len(txs)].amount

getActualSpending(budget) ==
  LET pass(tx) == spendingFilter(budget, tx)
  IN  reduceAmount(SelectSeq(transactions, pass))

\* A number that need not be whole is the fraction num / den, den > 0.
\* A slip: the progress held to 100, as the width of the bar is.
progressCapped(budget) ==
  IF budget.amount > 0
    THEN IF getActualSpending(budget) > budget.amount
           THEN [num |-> 100, den |-> 1]
           ELSE [num |-> getActualSpending(budget) * 100, den |-> budget.amount]
    ELSE [num |-> 0, den |-> 1]

\* BudgetsPage: budget.amount > 0 ? (actualSpending / budget.amount) * 100 : 0
progress(budget) ==
  IF budget.amount > 0
    THEN [num |-> getActualSpending(budget) * 100, den |-> budget.amount]
    ELSE [num |-> 0, den |-> 1]

\* BudgetsPage: budget.amount - actualSpending
remaining(budget) == budget.amount - getActualSpending(budget)

\* What localStorage holds under 'transactions' and 'accounts' when the
\* application starts: nothing, or the ledger of an earlier session, with
\* records on 2024-01-31, 2024-02-29, 2024-03-01 and 2024-03-02.
PersistedLedgers ==
  { [transactions |-> <<>>, accounts |-> <<>>],
    [transactions |->
       << << [id |-> <<"old", 3>>, date |-> MakeDay(2024, 2, 2), amount |-> 200,
              type |-> EXPENSE, categoryId |-> <<"cat-exp", 1>>,
              accountId |-> <<"acc", 1>>],
             [id |-> <<"old", 2>>, date |-> MakeDay(2024, 2, 1), amount |-> 200,
              type |-> INCOME, categoryId |-> <<"cat-exp", 1>>,
              accountId |-> <<"acc", 1>>],
             [id |-> <<"old", 4>>, date |-> MakeDay(2024, 1, 29), amount |-> 50,
              type |-> EXPENSE, categoryId |-> <<"cat-exp", 2>>,
              accountId |-> <<"acc", 1>>],
             [id |-> <<"old", 1>>, date |-> MakeDay(2024, 0, 31), amount |-> 150,
              type |-> EXPENSE, categoryId |-> <<"cat-exp", 1>>,
              accountId |-> <<"acc", 1>>] >> >>,
     accounts |-> << << [id |-> <<"acc", 1>>, balance |-> 999800] >> >>] }

InitBudgets ==
  /\ storage \in {[k \in KEYS |-> IF k \in {"transactions", "accounts"}
                                    THEN ledger[k] ELSE <<>>] :
                    ledger \in PersistedLedgers}
  /\ accounts = useLocalStorage(storage, "accounts", DEFAULT_INITIAL_ACCOUNTS)
  /\ categories = useLocalStorage(storage, "categories", DEFAULT_INITIAL_CATEGORIES)
  /\ transactions = useLocalStorage(storage, "transactions", <<>>)
  /\ budgets = useLocalStorage(storage, "budgets", <<>>)
  /\ idClock = 0
  /\ openingBalance = [id \in Ids(accounts) |->
                         FindById(accounts, id)[1].balance
                           - SignedSum(transactions, id)]
  /\ misses = 0
  /\ refusals = {}
  /\ lastOp = NoOp

SubmitBudgetForm ==
  \E editingBudget \in {<<>>} \cup {<<b>> : b \in Range(budgets)} :
   \E form \in BudgetFormStates(editingBudget) :
    /\ (editingBudget = <<>> /\ ~budgetFormIncomplete(form)) => idClock < MaxId
    /\ IF budgetFormIncomplete(form)
         THEN UNCHANGED <<accounts, categories, transactions, budgets, storage, idClock>>
         ELSE handleSubmitBudget(editingBudget, budgetData(form))
    /\ lastOp' = [op |-> IF budgetFormIncomplete(form) THEN "handleSubmitBudget"
                         ELSE IF editingBudget # <<>> THEN "updateBudget"
                         ELSE "addBudget",
                  id |-> IF editingBudget # <<>> THEN editingBudget[1].id
                         ELSE IF budgetFormIncomplete(form) THEN EmptyId
                         ELSE generateId(idClock + 1),
                  arg |-> <<>>,
                  found |-> editingBudget # <<>>,
                  outcome |-> IF budgetFormIncomplete(form) THEN "alert" ELSE "returned",
                  note |-> ""]
    /\ UNCHANGED <<openingBalance, misses, refusals>>

ClickDeleteBudget ==
  \E budgetId \in Ids(budgets), confirmed \in BOOLEAN :
    /\ handleDeleteBudget(budgetId, confirmed)
    /\ lastOp' = [op |-> "handleDeleteBudget", id |-> budgetId, arg |-> <<>>,
                  found |-> TRUE,
                  outcome |-> IF confirmed THEN "returned" ELSE "declined",
                  note |-> ""]
    /\ UNCHANGED <<openingBalance, misses, refusals>>

NextBudgets ==
  \/ SubmitBudgetForm
  \/ ClickDeleteBudget
  \/ ClickDeleteTransaction

SpecBudgets == InitBudgets /\ [][NextBudgets]_vars

----------------------------------------------------------------------------
(* The whole store: every function of the DataProvider that changes a       *)
(* collection, called with records and ids of small sets, and the page      *)
(* being loaded again (the DataProvider mounts anew and reads localStorage).*)

\* A slip: the new category takes the id of the first stored category.
addCategoryReusingId(category) ==
  LET cats == Append(categories,
                     [id |-> IF categories # <<>> THEN categories[1].id
                             ELSE generateId(idClock + 1),
                      type |-> category.type])
  IN  /\ idClock' = idClock + 1
      /\ categories' = cats
      /\ storage' = setItem(storage, [categories |-> cats])
      /\ UNCHANGED <<accounts, transactions, budgets>>

\* [...prev, { ...category, id: generateId() }]
addCategory(category) ==
  LET cats == Append(categories, [id |-> generateId(idClock + 1),
                                  type |-> category.type])
  IN  /\ idClock' = idClock + 1
      /\ categories' = cats
      /\ storage' = setItem(storage, [categories |-> cats])
      /\ UNCHANGED <<accounts, transactions, budgets>>

\* prev.map(cat => cat.id === updatedCategory.id ? updatedCategory : cat)
updateCategory(updatedCategory) ==
  LET cats == ReplaceById(categories, updatedCategory)
  IN  /\ categories' = cats
      /\ storage' = setItem(storage, [categories |-> cats])
      /\ UNCHANGED <<accounts, transactions, budgets, idClock>>

\* The DataProvider mounting: each collection starts from localStorage.
mountDataProvider ==
  /\ accounts' = useLocalStorage(storage, "accounts", DEFAULT_INITIAL_ACCOUNTS)
  /\ categories' = useLocalStorage(storage, "categories", DEFAULT_INITIAL_CATEGORIES)
  /\ transactions' = useLocalStorage(storage, "transactions", <<>>)
  /\ budgets' = useLocalStorage(storage, "budgets", <<>>)
  /\ UNCHANGED <<storage, idClock>>

\* The account and the category the calls name, the balance and the budget
\* they pass, the records the transaction form submits.
AccountIdsNamed == {<<"acc", 2>>}
CategoryIdsNamed == {<<"cat-inc", 1>>}
BalancesPassed == {0}
BudgetsPassed ==
  [categoryId : {<<"cat-exp", 1>>}, amount : {100}, period : {MONTHLY},
   startDate : StartDatesPicked]
DraftsSubmitted ==
  {d \in Drafts : d.amount = 50000 /\ d.accountId = <<"acc", 1>>}

\* lastOp of a call of the store: op(id).
StoreOp(op, id, found) ==
  [op |-> op, id |-> id, arg |-> <<>>, found |-> found,
   outcome |-> "returned", note |-> ""]

StoreAddAccount ==
  \E balance \in BalancesPassed :
    /\ idClock < MaxId
    /\ addAccount([balance |-> balance])
    /\ lastOp' = StoreOp("addAccount", generateId(idClock + 1), FALSE)
    /\ openingBalance' =
         [id \in DOMAIN openingBalance \cup {generateId(idClock + 1)} |->
            IF id \in DOMAIN openingBalance THEN openingBalance[id] ELSE balance]
    /\ UNCHANGED <<misses, refusals>>

StoreUpdateAccount ==
  \E id \in AccountIdsNamed, balance \in BalancesPassed :
    /\ updateAccount([id |-> id, balance |-> balance])
    /\ lastOp' = StoreOp("updateAccount", id, id \in Ids(accounts))
    /\ openingBalance' =
         [a \in DOMAIN openingBalance |->
            IF a = id THEN openingBalance[a] + balance - FindById(accounts, id)[1].balance
            ELSE openingBalance[a]]
    /\ UNCHANGED <<misses, refusals>>

StoreDeleteAccount ==
  \E id \in AccountIdsNamed :
    /\ deleteAccount(id)
    /\ lastOp' = StoreOp("deleteAccount", id, id \in Ids(accounts))
    /\ openingBalance' = [a \in DOMAIN openingBalance \ {id} |-> openingBalance[a]]
    /\ UNCHANGED <<misses, refusals>>

StoreAddCategory ==
  \E type \in {EXPENSE} :
    /\ idClock < MaxId
    /\ addCategory([type |-> type])
    /\ lastOp' = StoreOp("addCategory", generateId(idClock + 1), FALSE)
    /\ UNCHANGED <<openingBalance, misses, refusals>>

StoreUpdateCategory ==
  \E id \in CategoryIdsNamed, type \in CategoryType :
    /\ updateCategory([id |-> id, type |-> type])
    /\ lastOp' = StoreOp("updateCategory", id, id \in Ids(categories))
    /\ UNCHANGED <<openingBalance, misses, refusals>>

StoreDeleteCategory ==
  \E id \in CategoryIdsNamed :
    /\ deleteCategory(id)
    /\ lastOp' = StoreOp("deleteCategory", id, id \in Ids(categories))
    /\ UNCHANGED <<openingBalance, misses, refusals>>

StoreAddBudget ==
  \E budget \in BudgetsPassed :
    /\ idClock < MaxId
    /\ addBudget(budget)
    /\ lastOp' = StoreOp("addBudget", generateId(idClock + 1), FALSE)
    /\ UNCHANGED <<openingBalance, misses, refusals>>

StoreUpdateBudget ==
  \E id \in Ids(budgets), budget \in BudgetsPassed :
    /\ updateBudget(BudgetWithId([budget EXCEPT !.period = YEARLY], id))
    /\ lastOp' = StoreOp("updateBudget", id, TRUE)
    /\ UNCHANGED <<openingBalance, misses, refusals>>

StoreDeleteBudget ==
  \E id \in Ids(budgets) :
    /\ deleteBudget(id)
    /\ lastOp' = StoreOp("deleteBudget", id, TRUE)
    /\ UNCHANGED <<openingBalance, misses, refusals>>

\* The transaction form submitted for a new record.
StoreAddTransaction ==
  \E data \in DraftsSubmitted :
    /\ idClock < MaxId
    /\ handleSubmitTransaction(<<>>, data)
    /\ lastOp' = StoreOp("addTransaction", generateId(idClock + 1), FALSE)
    /\ UNCHANGED <<openingBalance, misses, refusals>>

\* The transaction form submitted for a stored record.
StoreUpdateTransaction ==
  \E editingTransaction \in {<<t>> : t \in Range(transactions)},
     data \in DraftsSubmitted :
    /\ handleSubmitTransaction(editingTransaction, data)
    /\ lastOp' = StoreOp("updateTransaction", editingTransaction[1].id, TRUE)
    /\ UNCHANGED <<openingBalance, misses, refusals>>

StoreDeleteTransaction ==
  \E id \in Ids(transactions) \cup {UnknownId} :
    /\ deleteTransaction(id)
    /\ lastOp' = StoreOp("deleteTransaction", id, id \in Ids(transactions))
    /\ UNCHANGED <<openingBalance, misses, refusals>>

Reload ==
  /\ mountDataProvider
  /\ lastOp' = StoreOp("reload", EmptyId, FALSE)
  /\ UNCHANGED <<openingBalance, misses, refusals>>

NextStore ==
  \/ StoreAddAccount
  \/ StoreUpdateAccount
  \/ StoreDeleteAccount
  \/ StoreAddCategory
  \/ StoreUpdateCategory
  \/ StoreDeleteCategory
  \/ StoreAddBudget
  \/ StoreUpdateBudget
  \/ StoreDeleteBudget
  \/ StoreAddTransaction
  \/ StoreUpdateTransaction
  \/ StoreDeleteTransaction
  \/ Reload

SpecStore == Init /\ [][NextStore]_vars

----------------------------------------------------------------------------
(* Records that name an account or a category that is not stored, and how   *)
(* the transaction table shows them.                                        *)

\* getCategoryById / getAccountById: <<>> for undefined.
getCategoryById(id) == FindById(categories, id)

getAccountById(id) == FindById(accounts, id)

\* The cells of a row of the transaction table: category?.name || 'N/A' and
\* account?.name || 'N/A'.  Every stored category and account has a name,
\* which the model does not hold: "name" stands for it.
categoryCell(tx) ==
  IF getCategoryById(tx.categoryId) # <<>> THEN "name" ELSE "N/A"

accountCell(tx) ==
  IF getAccountById(tx.accountId) # <<>> THEN "name" ELSE "N/A"

\* Records whose account and category may be ids of nothing.
LooseDrafts ==
  [date : Dates, amount : {50000}, type : CategoryType,
   categoryId : {<<"cat-exp", 1>>, UnknownId},
   accountId : {<<"acc", 1>>, UnknownId}]

AddLooseTransaction ==
  \E transaction \in LooseDrafts :
    /\ idClock < MaxId
    /\ addTransaction(transaction)
    /\ lastOp' = [op |-> "addTransaction", id |-> generateId(idClock + 1),
                  arg |-> <<transaction>>, found |-> FALSE,
                  outcome |-> "returned", note |-> ""]
    /\ UNCHANGED <<openingBalance, misses, refusals>>

UpdateLooseTransaction ==
  \E id \in Ids(transactions), transaction \in LooseDrafts :
    /\ updateTransaction(WithId(transaction, id))
    /\ lastOp' = [op |-> "updateTransaction", id |-> id,
                  arg |-> <<transaction>>, found |-> TRUE,
                  outcome |-> "returned", note |-> UpdateNote(id, transaction)]
    /\ UNCHANGED <<openingBalance, misses, refusals>>

NextLoose ==
  \/ AddLooseTransaction
  \/ UpdateLooseTransaction
  \/ DeleteDatedTransaction

SpecLoose == Init /\ [][NextLoose]_vars

----------------------------------------------------------------------------
(* The settings page: the category form and the reset of all data, beside   *)
(* the transaction form and the guarded delete buttons.                     *)

\* Categories whose edit button the user presses.
CategoryIdsEdited == {<<"cat-exp", 1>>}

\* The states of the category form when it is submitted: the name typed or
\* emptied; the type select starts with the type of the category being
\* edited (EXPENSE for a new one) and the user may change it on an edit.
CategoryFormStates(editingCategory) ==
  [name : {"", "x"},
   type : IF editingCategory # <<>> THEN CategoryType ELSE {EXPENSE}]

\* CategoryManagement.handleSubmit: if (!name) return; then updateCategory
\* of { ...editingCategory, ...categoryData } or addCategory(categoryData).
handleSubmitCategory(editingCategory, form) ==
  IF form.name = ""
    THEN UNCHANGED <<accounts, categories, transactions, budgets, storage, idClock>>
  ELSE IF editingCategory # <<>>
    THEN updateCategory([id |-> editingCategory[1].id, type |-> form.type])
    ELSE addCategory([type |-> form.type])

\* A slip: the reset leaves the transactions as they are.
resetAllDataKeepingTransactions(confirmed) ==
  IF confirmed
    THEN /\ accounts' = DEFAULT_INITIAL_ACCOUNTS
         /\ categories' = DEFAULT_INITIAL_CATEGORIES
         /\ budgets' = <<>>
         /\ storage' = setItem(storage, [accounts |-> DEFAULT_INITIAL_ACCOUNTS,
                                         categories |-> DEFAULT_INITIAL_CATEGORIES,
                                         budgets |-> <<>>])
         /\ UNCHANGED <<transactions, idClock>>
    ELSE UNCHANGED <<accounts, categories, transactions, budgets, storage, idClock>>

\* resetAllData: the four setters, each given a value (not a function), once
\* window.confirm was answered by `confirmed`.
resetAllData(confirmed) ==
  IF confirmed
    THEN /\ accounts' = DEFAULT_INITIAL_ACCOUNTS
         /\ categories' = DEFAULT_INITIAL_CATEGORIES
         /\ transactions' = <<>>
         /\ budgets' = <<>>
         /\ storage' = setItem(storage, [accounts |-> DEFAULT_INITIAL_ACCOUNTS,
                                         categories |-> DEFAULT_INITIAL_CATEGORIES,
                                         transactions |-> <<>>,
                                         budgets |-> <<>>])
         /\ UNCHANGED idClock
    ELSE UNCHANGED <<accounts, categories, transactions, budgets, storage, idClock>>

SubmitCategoryForm ==
  \E editingCategory \in
       {<<>>} \cup {<<c>> : c \in {c \in Range(categories) : c.id \in CategoryIdsEdited}} :
    \E form \in CategoryFormStates(editingCategory) :
      /\ (editingCategory = <<>> /\ form.name # "") => idClock < MaxId
      /\ handleSubmitCategory(editingCategory, form)
      /\ lastOp' = [op |-> IF form.name = "" THEN "handleSubmitCategory"
                           ELSE IF editingCategory # <<>> THEN "updateCategory"
                           ELSE "addCategory",
                    id |-> IF editingCategory # <<>> THEN editingCategory[1].id
                           ELSE IF form.name = "" THEN EmptyId
                           ELSE generateId(idClock + 1),
                    arg |-> <<>>,
                    found |-> editingCategory # <<>>,
                    outcome |-> "returned",
                    note |-> IF editingCategory # <<>>
                                  /\ editingCategory[1].type # form.type
                               THEN "retyped" ELSE ""]
      /\ UNCHANGED <<openingBalance, misses, refusals>>

\* The button 'Reset Semua Data'.  After a reset the accounts open with the
\* default balances and no deletion has been refused.
ClickResetAllData ==
  \E confirmed \in BOOLEAN :
    /\ resetAllData(confirmed)
    /\ lastOp' = [op |-> "resetAllData", id |-> EmptyId, arg |-> <<>>,
                  found |-> FALSE,
                  outcome |-> IF confirmed THEN "returned" ELSE "declined",
                  note |-> IF transactions # <<>> THEN "ledger" ELSE ""]
    /\ openingBalance' =
         IF confirmed
           THEN [id \in Ids(DEFAULT_INITIAL_ACCOUNTS) |->
                   FindById(DEFAULT_INITIAL_ACCOUNTS, id)[1].balance]
           ELSE openingBalance
    /\ refusals' = IF confirmed THEN {} ELSE refusals
    /\ UNCHANGED misses

\* The transactions page and the category form.
NextCategories ==
  \/ SubmitTransactionForm
  \/ ClickDeleteTransaction
  \/ SubmitCategoryForm

SpecCategories == Init /\ [][NextCategories]_vars

\* The transaction form, the guarded delete buttons and the reset.
NextPages ==
  \/ SubmitTransactionForm
  \/ ClickDeleteTransaction
  \/ ClickDeleteCategory
  \/ ClickDeleteAccount
  \/ ClickResetAllData

SpecPages == Init /\ [][NextPages]_vars

\* The budget form and the delete button of a category, over the ledger of
\* an earlier session.
NextBudgetRefs ==
  \/ SubmitBudgetForm
  \/ ClickDeleteTransaction
  \/ ClickDeleteCategory

SpecBudgetRefs == InitBudgets /\ [][NextBudgetRefs]_vars

----------------------------------------------------------------------------
(* deleteTransaction called again with an id it was called with before.     *)

\* deleteTransaction with any id generateId has made, stored or not, or with
\* an id it never made.  The note tells a call that repeats the last one.
DeletePassedTransaction ==
  \E id \in TransactionIdsPassed :
    /\ deleteTransaction(id)
    /\ lastOp' = [op |-> "deleteTransaction", id |-> id, arg |-> <<>>,
                  found |-> id \in Ids(transactions), outcome |-> "returned",
                  note |-> IF lastOp.op = "deleteTransaction" /\ lastOp.id = id
                             THEN "again" ELSE DeleteNote(id)]
    /\ UNCHANGED <<openingBalance, misses, refusals>>

NextRepeat ==
  \/ AddDatedTransaction
  \/ DeletePassedTransaction

SpecRepeat == Init /\ [][NextRepeat]_vars

----------------------------------------------------------------------------
(* The setter of useLocalStorage called more than once in one handler, as a *)
(* component that calls addTransaction twice before it renders again does.  *)

\* The function addTransaction passes to setTransactions:
\* prev => [newTransaction, ...prev].sort(...)
addTransactionUpdater(prev, newTransaction) ==
  SortByDateDesc(<<newTransaction>> \o prev)

\* setValue called once for each element of valuesToStore, all in one
\* handler.  Every call computes valueToStore = value(storedValue) from the
\* storedValue of the render the handler was made in, gives that value (not
\* the function) to setStoredValue and writes it to localStorage: the state
\* and the item are left with the value of the last call.
setValueCalls(storedValue, valuesToStore) ==
  IF valuesToStore = <<>> THEN storedValue
  ELSE valuesToStore[Len(valuesToStore)]

\* addTransaction(first); addTransaction(second) in one handler: both calls
\* apply their functions to the transactions and accounts of the same render.
addTransactionTwice(first, second) ==
  LET new1 == WithId(first, generateId(idClock + 1))
      new2 == WithId(second, generateId(idClock + 2))
      txs == setValueCalls(transactions,
                           << addTransactionUpdater(transactions, new1),
                              addTransactionUpdater(transactions, new2) >>)
      accs == setValueCalls(accounts,
                            << addTransactionAccounts(accounts, first),
                               addTransactionAccounts(accounts, second) >>)
  IN  /\ idClock' = idClock + 2
      /\ transactions' = txs
      /\ accounts' = accs
      /\ storage' = setItem(storage, [transactions |-> txs, accounts |-> accs])
      /\ UNCHANGED <<categories, budgets>>

AddTwoTransactions ==
  \E first \in DatedDrafts, second \in DatedDrafts :
    /\ idClock + 2 <= MaxId
    /\ addTransactionTwice(first, second)
    /\ lastOp' = [op |-> "addTransactionTwice", id |-> generateId(idClock + 2),
                  arg |-> <<first, second>>, found |-> FALSE,
                  outcome |-> "returned", note |-> ""]
    /\ UNCHANGED <<openingBalance, misses, refusals>>

NextBatch ==
  \/ AddDatedTransaction
  \/ AddTwoTransactions
  \/ DeleteDatedTransaction

SpecBatch == Init /\ [][NextBatch]_vars

----------------------------------------------------------------------------
(* What the dashboard and the reports page compute from the collections.    *)

\* accounts.reduce((sum, acc) => sum + acc.balance, 0)
RECURSIVE reduceBalance(_)
reduceBalance(accs) ==
  IF accs = <<>> THEN 0
  ELSE reduceBalance(SubSeq(accs, 1, Len(accs) - 1)) + accs[Len(accs)].balance

\* DashboardPage.overallBalance
overallBalance == reduceBalance(accounts)

\* ReportsPage.cashFlow: the forEach over txs, from income = 0, expenses = 0.
RECURSIVE cashFlowOver(_)
cashFlowOver(txs) ==
  IF txs = <<>> THEN [income |-> 0, expenses |-> 0]
  ELSE LET sofar == cashFlowOver(SubSeq(txs, 1, Len(txs) - 1))
           tx == txs[Len(txs)]
       IN  IF tx.type = INCOME
             THEN [sofar EXCEPT !.income = @ + tx.amount]
             ELSE [sofar EXCEPT !.expenses = @ + tx.amount]

\* ReportsPage.cashFlow: { income, expenses, net: income - expenses }
cashFlow ==
  LET totals == cashFlowOver(transactions)
  IN  [income |-> totals.income, expenses |-> totals.expenses,
       net |-> totals.income - totals.expenses]

----------------------------------------------------------------------------
(* What the claims speak of. *)

\* SignedAmount(tx) if tx is on accountId, else 0.
ImpactOn(tx, accountId) ==
  IF tx.accountId = accountId THEN SignedAmount(tx) ELSE 0

\* The accounts after the step are the accounts before it, in the same
\* order, the balance of each changed by delta[its id].
BalancesMoveBy(delta(_)) ==
  /\ Len(accounts') = Len(accounts)
  /\ \A i \in DOMAIN accounts :
       /\ accounts'[i].id = accounts[i].id
       /\ accounts'[i].balance = accounts[i].balance + delta(accounts[i].id)

\* The step is a call of op that named the id of a stored transaction.
StepOnStored(op) ==
  /\ lastOp'.op = op
  /\ lastOp'.id \in Ids(transactions)

----------------------------------------------------------------------------
(* C1. Balance invariant: every account's stored balance equals its opening *)
(* balance plus the signed sum of the stored transactions on that account,  *)
(* after any sequence of addTransaction, updateTransaction and              *)
(* deleteTransaction calls.                                                 *)
C1_BalanceInvariant ==
  \A i \in DOMAIN accounts :
    accounts[i].balance =
      openingBalance[accounts[i].id] + SignedSum(transactions, accounts[i].id)

(* C2. updateTransaction on a stored transaction whose account changes from *)
(* A to B takes the old record's signed impact off A, puts the updated      *)
(* record's signed impact on B, and leaves every other balance as it was.   *)
C2_UpdateAcrossAccounts ==
  [][ /\ StepOnStored("updateTransaction")
      /\ FindById(transactions, lastOp'.id)[1].accountId # lastOp'.arg[1].accountId
      => LET old == FindById(transactions, lastOp'.id)[1]
             updated == lastOp'.arg[1]
             delta(a) == IF a = old.accountId THEN 0 - SignedAmount(old)
                         ELSE IF a = updated.accountId THEN SignedAmount(updated)
                         ELSE 0
         IN  BalancesMoveBy(delta) ]_vars

\* An update has moved a transaction between two stored accounts.
C2_Witness ==
  /\ lastOp.op = "updateTransaction"
  /\ lastOp.note = "moved"
  /\ AccountIdsPassed \subseteq Ids(accounts)

(* C3. updateTransaction on a stored transaction that keeps its account     *)
(* changes that account's balance by the updated record's signed impact     *)
(* minus the old record's, whatever the old and new amount and type, and    *)
(* changes no other balance.                                                *)
C3_UpdateSameAccount ==
  [][ /\ StepOnStored("updateTransaction")
      /\ FindById(transactions, lastOp'.id)[1].accountId = lastOp'.arg[1].accountId
      => LET old == FindById(transactions, lastOp'.id)[1]
             updated == lastOp'.arg[1]
             delta(a) == IF a = old.accountId
                           THEN SignedAmount(updated) - SignedAmount(old)
                           ELSE 0
         IN  BalancesMoveBy(delta) ]_vars

\* An update has turned an income into an expense, or the reverse, on a
\* stored account.
C3_Witness ==
  /\ lastOp.op = "updateTransaction"
  /\ lastOp.note = "flipped"
  /\ lastOp.arg[1].accountId \in Ids(accounts)

(* C4. addTransaction(draft) inserts exactly one new transaction, carrying  *)
(* the draft's fields and a new id, changes the balance of the draft's      *)
(* account by +amount (income) or -amount (expense), and leaves every other *)
(* balance, every other transaction, the categories and the budgets alone.  *)
C4_AddTransactionFrame ==
  [][ lastOp'.op = "addTransaction"
      => LET draft == lastOp'.arg[1]
             added == WithId(draft, lastOp'.id)
             delta(a) == ImpactOn(draft, a)
         IN  /\ lastOp'.id \notin Ids(transactions)
             /\ Len(transactions') = Len(transactions) + 1
             /\ \E k \in DOMAIN transactions' :
                  /\ transactions'[k] = added
                  /\ transactions =
                       SubSeq(transactions', 1, k - 1)
                         \o SubSeq(transactions', k + 1, Len(transactions'))
             /\ BalancesMoveBy(delta)
             /\ categories' = categories
             /\ budgets' = budgets ]_vars

\* An add has changed the balance of a stored account while another
\* transaction was stored.
C4_Witness ==
  /\ lastOp.op = "addTransaction"
  /\ lastOp.arg[1].accountId \in Ids(accounts)
  /\ Len(transactions) = 2

(* C5. deleteTransaction(id) on a stored transaction reverses its signed    *)
(* impact on its account (subtracts an income, adds back an expense) and    *)
(* removes exactly that transaction.                                        *)
C5_DeleteReverses ==
  [][ StepOnStored("deleteTransaction")
      => LET old == FindById(transactions, lastOp'.id)[1]
             delta(a) == 0 - ImpactOn(old, a)
             keep(t) == t.id # old.id
         IN  /\ BalancesMoveBy(delta)
             /\ transactions' = SelectSeq(transactions, keep) ]_vars

\* The scenario of the claim: from a1 = 1000000, an expense of 50000 and an
\* income of 200000 were added on a1 (the ledger then read 1150000) and the
\* first of the two was deleted: a1 reads 1200000.
C5_Witness ==
  /\ lastOp.op = "deleteTransaction"
  /\ lastOp.id = generateId(1)
  /\ lastOp.found
  /\ misses = 0
  /\ openingBalance = [id \in {<<"acc", 1>>} |-> 1000000]
  /\ accounts = << [id |-> <<"acc", 1>>, balance |-> 1200000] >>
  /\ Len(transactions) = 1
  /\ transactions[1].id = generateId(2)
  /\ transactions[1].type = INCOME
  /\ transactions[1].amount = 200000
  /\ transactions[1].accountId = <<"acc", 1>>

(* C6. Add-then-delete is the identity: deleting the transaction an add has *)
(* just made, by its id, restores every balance to its value before the add *)
(* and the transaction collection to the records it held before the add.    *)
C6_AddThenDeleteIdentity ==
  [][ lastOp'.op = "addTransaction"
      => LET r == deleteTransactionResult(transactions', accounts', lastOp'.id)
         IN  /\ r.accounts = accounts
             /\ Range(r.transactions) = Range(transactions)
             /\ Len(r.transactions) = Len(transactions) ]_vars

\* A transaction on a stored account was deleted right after it was added.
C6_Witness ==
  /\ lastOp.op = "deleteTransaction"
  /\ lastOp.note = "afterAdd"
  /\ lastOp.found
  /\ C1_BalanceInvariant
  /\ misses = 0

(* C7. updateTransaction called with a record whose id no stored            *)
(* transaction carries fails with NotFound, shown to the caller.            *)
C7_UpdateMissingFails ==
  (lastOp.op = "updateTransaction" /\ ~lastOp.found)
    => lastOp.outcome = "NotFound"

(* C8. deleteTransaction called with an id no stored transaction carries    *)
(* fails with NotFound, shown to the caller.                                *)
C8_DeleteMissingFails ==
  (lastOp.op = "deleteTransaction" /\ ~lastOp.found)
    => lastOp.outcome = "NotFound"

(* C9. Deleting a category that a stored transaction refers to is refused  *)
(* with a message (the alert standing for ReferentialIntegrityViolation)    *)
(* and leaves the categories as they were; with no transaction referring to *)
(* it, the deletion, once confirmed, removes the category.                  *)
C9_CategoryDeleteGuard ==
  [][ lastOp'.op = "handleDelete"
      => LET categoryId == lastOp'.id
             referenced == \E t \in Range(transactions) : t.categoryId = categoryId
             keep(c) == c.id # categoryId
         IN  IF referenced
               THEN /\ lastOp'.outcome = "alert"
                    /\ categories' = categories
               ELSE \/ /\ lastOp'.outcome = "declined"
                       /\ categories' = categories
                    \/ /\ lastOp'.outcome = "returned"
                       /\ categoryId \in Ids(categories)
                       /\ categories' = SelectSeq(categories, keep) ]_vars

\* A category whose deletion was refused has been deleted, after the
\* transactions referring to it were removed.
C9_Witness ==
  /\ lastOp.op = "handleDelete"
  /\ lastOp.outcome = "returned"
  /\ lastOp.id \in refusals
  /\ lastOp.id \notin Ids(categories)

(* C10. deleteAccount never removes an account that is the account of a     *)
(* stored transaction.                                                      *)
C10_AccountDeleteGuard ==
  [][ lastOp'.op = "deleteAccount"
      => /\ Ids(accounts') = Ids(accounts) \ {lastOp'.id}
         /\ \A t \in Range(transactions) : t.accountId # lastOp'.id ]_vars

\* An account was deleted while a transaction on another account was stored.
C10_Witness ==
  /\ lastOp.op = "deleteAccount"
  /\ lastOp.id \notin Ids(accounts)
  /\ \E t \in Range(transactions) : t.accountId \in Ids(accounts)

(* C11. A direct balance edit is possible only for an account no stored     *)
(* transaction refers to: an update made through the account form on an     *)
(* account with a referring transaction leaves that account's balance at    *)
(* its value before the update.                                             *)
C11_BalanceEditGuard ==
  [][ /\ lastOp'.op = "updateAccount"
      /\ \E t \in Range(transactions) : t.accountId = lastOp'.id
      => /\ lastOp'.id \in Ids(accounts')
         /\ FindById(accounts', lastOp'.id)[1].balance
              = FindById(accounts, lastOp'.id)[1].balance ]_vars

\* The form has updated an account that a transaction refers to, after the
\* balance of an account without transactions was set to 0 through it.
C11_Witness ==
  /\ lastOp.op = "updateAccount"
  /\ lastOp.note = "referenced"
  /\ \E a \in Range(accounts) :
       /\ a.balance = 0
       /\ \A t \in Range(transactions) : t.accountId # a.id

(* C12. After every addTransaction, updateTransaction and deleteTransaction *)
(* the stored transaction list is ordered by date descending: of two        *)
(* adjacent entries the earlier one's date is greater than or equal to the  *)
(* later one's.                                                             *)
C12_SortedByDateDesc ==
  \A i \in 1..(Len(transactions) - 1) :
    transactions[i].date >= transactions[i + 1].date

\* An update has given a new date to the record that was added first, which
\* now stands before a record of an earlier date that was added after it.
C12_Witness ==
  /\ lastOp.op = "updateTransaction"
  /\ lastOp.note = "redated"
  /\ Len(transactions) >= 2
  /\ transactions[1].id = lastOp.id
  /\ transactions[1].id = generateId(1)
  /\ transactions[1].date > transactions[2].date

\* Times at which the budgets are looked at: 2024-01-31, 2024-03-15 and
\* 2025-03-15.
EvaluationTimes == {MakeDay(2024, 0, 31), MakeDay(2024, 2, 15), MakeDay(2025, 2, 15)}

(* C13. For every budget and every evaluation time now >= budget.startDate  *)
(* the window the spending is computed over is the current one: it starts   *)
(* at or before now and ends after now, also when more than one period has  *)
(* gone by since startDate.                                                 *)
C13_CurrentWindow ==
  \A b \in Range(budgets) : \A now \in EvaluationTimes :
    now >= b.startDate
      => budgetStartDate(b) <= now /\ now < budgetEndDate(b)

(* C14. One month on from a Monthly start of 2024-01-31 the boundary is a   *)
(* date in February 2024 (February is not skipped, March not run into), and *)
(* the window that is current on 2024-03-15 starts in February or March.    *)
C14_MonthLengthHandled ==
  \A b \in Range(budgets) :
    (b.period = MONTHLY /\ b.startDate = MakeDay(2024, 0, 31))
      => /\ getFullYear(budgetEndDate(b)) = 2024
         /\ getMonth(budgetEndDate(b)) = 1
         /\ getMonth(budgetStartDate(b)) \in {1, 2}

\* The stored transactions an expense budget counts, by the words of the
\* claim, and the sum of their amounts.
CountedBy(b) ==
  {i \in DOMAIN transactions :
     /\ transactions[i].categoryId = b.categoryId
     /\ transactions[i].type = EXPENSE
     /\ budgetStartDate(b) <= transactions[i].date
     /\ transactions[i].date < budgetEndDate(b)}

RECURSIVE AmountOver(_)
AmountOver(I) ==
  IF I = {} THEN 0
  ELSE LET i == CHOOSE j \in I : TRUE
       IN  transactions[i].amount + AmountOver(I \ {i})

(* C15. For the window [start, end) of a budget, actualSpending is the sum  *)
(* of the amounts of exactly the stored transactions of the budget's        *)
(* category, of type expense, dated from start (included) to end            *)
(* (excluded); it is 0 when there is none.                                  *)
C15_ActualSpending ==
  \A b \in Range(budgets) :
    /\ getActualSpending(b) = AmountOver(CountedBy(b))
    /\ CountedBy(b) = {} => getActualSpending(b) = 0

\* A Monthly budget from 2024-01-31 counts the expense dated on its start
\* and nothing else, while an expense of its category dated on the end of
\* its window, an income of its category and an expense of another category
\* inside the window are stored.
C15_Witness ==
  \E b \in Range(budgets) :
    /\ b.period = MONTHLY
    /\ b.startDate = MakeDay(2024, 0, 31)
    /\ getActualSpending(b) = 150
    /\ \E t \in Range(transactions) :
         t.date = budgetStartDate(b) /\ t.type = EXPENSE /\ t.categoryId = b.categoryId
    /\ \E t \in Range(transactions) :
         t.date = budgetEndDate(b) /\ t.type = EXPENSE /\ t.categoryId = b.categoryId
    /\ \E t \in Range(transactions) :
         /\ t.type = INCOME /\ t.categoryId = b.categoryId
         /\ budgetStartDate(b) <= t.date /\ t.date < budgetEndDate(b)
    /\ \E t \in Range(transactions) :
         /\ t.type = EXPENSE /\ t.categoryId # b.categoryId
         /\ budgetStartDate(b) <= t.date /\ t.date < budgetEndDate(b)

(* C16. The progress of a budget is actualSpending / amount (held as a      *)
(* percentage) when amount > 0 and 0 otherwise, it is not held to 100% when *)
(* the spending is over the budget, and the remaining amount is             *)
(* amount - actualSpending, negative exactly when the spending exceeds the  *)
(* amount.                                                                  *)
C16_ProgressAndRemaining ==
  \A b \in Range(budgets) :
    LET actual == getActualSpending(b)
        p == progress(b)
    IN  /\ p.den > 0
        /\ b.amount > 0 => p.num * b.amount = 100 * actual * p.den
        /\ ~(b.amount > 0) => p.num = 0
        /\ (b.amount > 0 /\ actual > b.amount) => p.num > 100 * p.den
        /\ remaining(b) = b.amount - actual
        /\ remaining(b) < 0 <=> actual > b.amount

\* A budget of 100 with 150 spent (150%, 50 over) and a budget of amount 0
\* are stored.
C16_Witness ==
  /\ \E b \in Range(budgets) :
       /\ b.amount = 100
       /\ getActualSpending(b) = 150
       /\ remaining(b) = 0 - 50
       /\ progress(b).num = 150 * progress(b).den
  /\ \E b \in Range(budgets) : b.amount = 0 /\ progress(b).num = 0

\* The keys of the collections an operation of the store changes: the
\* transaction operations also adjust balances, deleteTransaction only when
\* it found the record.
KeysTouched(op, found) ==
  CASE op \in {"addAccount", "updateAccount", "deleteAccount"} -> {"accounts"}
    [] op \in {"addCategory", "updateCategory", "deleteCategory"} -> {"categories"}
    [] op \in {"addBudget", "updateBudget", "deleteBudget"} -> {"budgets"}
    [] op \in {"addTransaction", "updateTransaction"} -> {"transactions", "accounts"}
    [] op = "deleteTransaction" ->
         IF found THEN {"transactions", "accounts"} ELSE {"transactions"}
    [] OTHER -> {}

C18_StartUp ==
  lastOp.op \in {"none", "reload"}
    => /\ accounts = IF storage["accounts"] = <<>>
                       THEN DEFAULT_INITIAL_ACCOUNTS ELSE storage["accounts"][1]
       /\ categories = IF storage["categories"] = <<>>
                         THEN DEFAULT_INITIAL_CATEGORIES ELSE storage["categories"][1]
       /\ transactions = IF storage["transactions"] = <<>>
                           THEN <<>> ELSE storage["transactions"][1]
       /\ budgets = IF storage["budgets"] = <<>>
                      THEN <<>> ELSE storage["budgets"][1]

\* The application has started again with accounts and transactions
\* persisted that are not the defaults, and no budgets persisted.
C18_Witness ==
  /\ lastOp.op = "reload"
  /\ storage["accounts"] # <<>>
  /\ accounts # DEFAULT_INITIAL_ACCOUNTS
  /\ storage["transactions"] # <<>>
  /\ transactions # <<>>
  /\ storage["budgets"] = <<>>
  /\ budgets = <<>>

\* No two records of the sequence s share an id.
UniqueIds(s) == Cardinality(Ids(s)) = Len(s)

\* The ids of the records of s, in the order of the records.
IdsInOrder(s) == [i \in DOMAIN s |-> s[i].id]

(* C19. Ids are unique and do not change: no two records of a collection    *)
(* share an id, every add gives the new record an id that no record of the  *)
(* collection carried, and an update (the edit submitted through the        *)
(* transaction form included) changes neither the id of the record it       *)
(* replaces nor the set of ids of the collection.                           *)
C19_IdsUniqueAndKept ==
  [][ LET coll == [accounts |-> accounts', categories |-> categories',
                   transactions |-> transactions', budgets |-> budgets']
          before == [accounts |-> accounts, categories |-> categories,
                     transactions |-> transactions, budgets |-> budgets]
          added == [addAccount |-> "accounts", addCategory |-> "categories",
                    addTransaction |-> "transactions", addBudget |-> "budgets"]
          updated == [updateAccount |-> "accounts", updateCategory |-> "categories",
                      updateTransaction |-> "transactions", updateBudget |-> "budgets"]
      IN  /\ \A k \in KEYS : UniqueIds(before[k]) /\ UniqueIds(coll[k])
          /\ lastOp'.op \in DOMAIN added
               => /\ lastOp'.id \notin Ids(before[added[lastOp'.op]])
                  /\ Ids(coll[added[lastOp'.op]])
                       = Ids(before[added[lastOp'.op]]) \cup {lastOp'.id}
          /\ lastOp'.op \in DOMAIN updated
               => /\ Ids(coll[updated[lastOp'.op]]) = Ids(before[updated[lastOp'.op]])
                  /\ Len(coll[updated[lastOp'.op]]) = Len(before[updated[lastOp'.op]])
                  /\ lastOp'.op # "updateTransaction"
                       => IdsInOrder(coll[updated[lastOp'.op]])
                            = IdsInOrder(before[updated[lastOp'.op]]) ]_vars

\* The transaction form has changed a stored record, which keeps its id,
\* while a category that was added is stored too.
C19_Witness ==
  /\ lastOp.op = "updateTransaction"
  /\ lastOp.id \in Ids(transactions)
  /\ \E n \in 1..idClock : generateId(n) \in Ids(categories)

\* The row of the record the last add or update stored: a lookup of an id
\* that is the id of nothing gives undefined and the cell shows 'N/A'.
DanglingShownAsPlaceholder ==
  lastOp.op \in {"addTransaction", "updateTransaction"}
    => LET stored == WithId(lastOp.arg[1], lastOp.id)
       IN  /\ stored.accountId \notin Ids(accounts)
                => /\ getAccountById(stored.accountId) = <<>>
                   /\ accountCell(stored) = "N/A"
           /\ stored.categoryId \notin Ids(categories)
                => /\ getCategoryById(stored.categoryId) = <<>>
                   /\ categoryCell(stored) = "N/A"

(* C20. addTransaction and updateTransaction do not refuse a record whose   *)
(* accountId or categoryId is the id of no stored account or category: the  *)
(* record is stored, no balance changes on account of an accountId that is  *)
(* the id of no account, and the lookups getAccountById / getCategoryById   *)
(* give an absent result, shown as a placeholder.                           *)
C20_DanglingAccepted ==
  [][ /\ lastOp'.op \in {"addTransaction", "updateTransaction"}
      /\ \/ lastOp'.arg[1].accountId \notin Ids(accounts)
         \/ lastOp'.arg[1].categoryId \notin Ids(categories)
      => LET draft == lastOp'.arg[1]
             stored == WithId(draft, lastOp'.id)
             old == FindById(transactions, lastOp'.id)
             delta(a) == IF old # <<>> THEN 0 - ImpactOn(old[1], a) ELSE 0
         IN  /\ lastOp'.outcome = "returned"
             /\ stored \in Range(transactions')
             /\ draft.accountId \notin Ids(accounts) => BalancesMoveBy(delta)
             /\ Ids(accounts') = Ids(accounts)
             /\ Ids(categories') = Ids(categories)
             /\ DanglingShownAsPlaceholder' ]_vars

\* An update has moved a stored transaction of a stored account to an
\* account and a category that are not stored; its row shows the placeholder
\* twice, and another transaction with its account stored shows the name.
C20_Witness ==
  /\ lastOp.op = "updateTransaction"
  /\ lastOp.note = "moved"
  /\ lastOp.arg[1].accountId = UnknownId
  /\ lastOp.arg[1].categoryId = UnknownId
  /\ \E t \in Range(transactions) :
       t.id = lastOp.id /\ accountCell(t) = "N/A" /\ categoryCell(t) = "N/A"
  /\ \E t \in Range(transactions) :
       accountCell(t) = "name" /\ categoryCell(t) = "name"

(* C21. A transaction or budget submission with a required field missing or *)
(* an amount that is not positive is refused and stores nothing, so that    *)
(* every stored transaction and every stored budget has amount > 0.         *)
C21_AmountsPositive ==
  /\ \A t \in Range(transactions) : t.amount > 0
  /\ \A b \in Range(budgets) : b.amount > 0

(* C22. When a transaction is entered through the transaction form (added   *)
(* or edited), its type is the type of the stored category its categoryId   *)
(* names; updateCategory changes no transaction, so the match is not made   *)
(* again when the type of the category is changed afterwards.               *)
C22_TypeMatchesAtEntry ==
  [][ /\ (lastOp'.op = "handleSubmit" /\ lastOp'.outcome = "returned")
           => LET stored == FindById(transactions', lastOp'.id)
              IN  /\ stored # <<>>
                  /\ FindById(categories', stored[1].categoryId) # <<>>
                  /\ FindById(categories', stored[1].categoryId)[1].type
                       = stored[1].type
      /\ lastOp'.op = "updateCategory" => transactions' = transactions ]_vars

\* The category form has changed the type of a category that a transaction
\* entered through the transaction form names: the two types now differ.
C22_Witness ==
  /\ lastOp.op = "updateCategory"
  /\ lastOp.note = "retyped"
  /\ \E t \in Range(transactions) :
       /\ t.categoryId = lastOp.id
       /\ FindById(categories, t.categoryId)[1].type # t.type

C24_UpdateMissingNoOp ==
  [][ (lastOp'.op = "updateTransaction" /\ ~lastOp'.found)
      => /\ transactions' = transactions
         /\ accounts' = accounts ]_vars

(* C25. deleteTransaction called with an id no stored transaction carries   *)
(* leaves the transaction collection and every account's balance as they    *)
(* were; so deleting the same id a second time, after the first deletion    *)
(* has taken effect, changes nothing: the impact is reversed once.          *)
C25_DeleteMissingNoOp ==
  [][ /\ (lastOp'.op = "deleteTransaction" /\ ~lastOp'.found)
           => /\ transactions' = transactions
              /\ accounts' = accounts
      /\ StepOnStored("deleteTransaction")
           => LET again == deleteTransactionResult(transactions', accounts', lastOp'.id)
              IN  /\ again.transactions = transactions'
                  /\ again.accounts = accounts' ]_vars

\* The id of a transaction that was stored has been deleted twice in a row
\* while another transaction is stored: every balance is its opening balance
\* plus the signed sum of the transactions that remain.
C25_Witness ==
  /\ lastOp.op = "deleteTransaction"
  /\ lastOp.note = "again"
  /\ ~lastOp.found
  /\ lastOp.id = generateId(1)
  /\ transactions # <<>>
  /\ \A a \in Range(accounts) :
       a.balance = openingBalance[a.id] + SignedSum(transactions, a.id)

(* C26. Under the operations of the pages (the transaction form, the        *)
(* guarded delete buttons of accounts and categories, the reset of all      *)
(* data) every stored transaction's accountId is the id of a stored account *)
(* and its categoryId the id of a stored category.                          *)
C26_ReferentialIntegrity ==
  \A t \in Range(transactions) :
    /\ t.accountId \in Ids(accounts)
    /\ t.categoryId \in Ids(categories)

\* Transactions are stored after the deletion of a category was refused, and
\* an account and a category of the defaults have been deleted.
C26_Witness ==
  /\ transactions # <<>>
  /\ refusals # {}
  /\ Len(accounts) = 2
  /\ <<"acc", 2>> \notin Ids(accounts)
  /\ <<"cat-inc", 1>> \notin Ids(categories)

(* C27. The guard of the category deletion looks at the transactions only:  *)
(* a category that budgets name but no transaction names is deleted once    *)
(* the deletion is confirmed, and those budgets stay stored with their      *)
(* categoryId as it was, naming no stored category; no press of the delete  *)
(* button of a category removes or changes a budget.                        *)
C27_GuardIgnoresBudgets ==
  [][ lastOp'.op = "handleDelete"
      => /\ budgets' = budgets
         /\ ( /\ \E b \in Range(budgets) : b.categoryId = lastOp'.id
              /\ \A t \in Range(transactions) : t.categoryId # lastOp'.id
              /\ lastOp'.outcome # "declined" )
              => /\ lastOp'.outcome = "returned"
                 /\ lastOp'.id \notin Ids(categories')
                 /\ \E b \in Range(budgets') :
                      /\ b.categoryId = lastOp'.id
                      /\ getCategoryById(b.categoryId)' = <<>> ]_vars

\* The deletion of a category was refused while transactions named it; with
\* those transactions deleted it went through although a budget names the
\* category, and the budget is still stored.
C27_Witness ==
  /\ lastOp.op = "handleDelete"
  /\ lastOp.outcome = "returned"
  /\ lastOp.id \in refusals
  /\ lastOp.id \notin Ids(categories)
  /\ \E b \in Range(budgets) : b.categoryId = lastOp.id

(* C28. resetAllData, once confirmed, sets the accounts and the categories  *)
(* to the built-in defaults and the transactions and the budgets to empty,  *)
(* in memory and persisted, so that every balance is again the account's    *)
(* opening balance plus the signed sum of its transactions, the opening     *)
(* balances being the default ones; declined, it leaves the four            *)
(* collections, in memory and persisted, as they were.                      *)
C28_ResetAllData ==
  [][ lastOp'.op = "resetAllData"
      => IF lastOp'.outcome = "returned"
           THEN /\ accounts' = DEFAULT_INITIAL_ACCOUNTS
                /\ categories' = DEFAULT_INITIAL_CATEGORIES
                /\ transactions' = <<>>
                /\ budgets' = <<>>
                /\ storage' = [accounts |-> <<DEFAULT_INITIAL_ACCOUNTS>>,
                               categories |-> <<DEFAULT_INITIAL_CATEGORIES>>,
                               transactions |-> << <<>> >>,
                               budgets |-> << <<>> >>]
                /\ \A a \in Range(accounts') :
                     a.balance = FindById(DEFAULT_INITIAL_ACCOUNTS, a.id)[1].balance
                                   + SignedSum(transactions', a.id)
           ELSE /\ lastOp'.outcome = "declined"
                /\ UNCHANGED <<accounts, categories, transactions, budgets, storage>>
    ]_vars

\* A reset was confirmed while transactions were stored: the ledger is the
\* default one, with nothing of the accounts and categories deleted before.
C28_Witness ==
  /\ lastOp.op = "resetAllData"
  /\ lastOp.outcome = "returned"
  /\ lastOp.note = "ledger"
  /\ idClock > 0
  /\ transactions = <<>>
  /\ accounts = DEFAULT_INITIAL_ACCOUNTS
  /\ storage["transactions"] = << <<>> >>

\* The sum of the opening balances of the stored accounts.
RECURSIVE OpeningSum(_)
OpeningSum(accs) ==
  IF accs = <<>> THEN 0
  ELSE openingBalance[Head(accs).id] + OpeningSum(Tail(accs))

(* C29. In every reachable state in which each stored transaction names a   *)
(* stored account, the overall balance of the dashboard (the sum of the     *)
(* balances of the accounts) is the sum of the accounts' opening balances   *)
(* plus the net cash flow of the reports (total income minus total expense  *)
(* over the stored transactions).                                           *)
C29_OverallBalance ==
  (\A t \in Range(transactions) : t.accountId \in Ids(accounts))
    => overallBalance = OpeningSum(accounts) + cashFlow.net

(* C30. No update is lost in the setter of useLocalStorage: when two        *)
(* functional updates of one collection are issued without a render in      *)
(* between (two addTransaction calls from one handler), the collection in   *)
(* memory and the persisted one reflect both: both records are stored and   *)
(* every balance has moved by the impact of both.                           *)
C30_NoLostUpdate ==
  [][ lastOp'.op = "addTransactionTwice"
      => LET first == lastOp'.arg[1]
             second == lastOp'.arg[2]
             delta(a) == ImpactOn(first, a) + ImpactOn(second, a)
         IN  /\ Ids(transactions')
                  = Ids(transactions)
                      \cup {generateId(idClock + 1), generateId(idClock + 2)}
             /\ BalancesMoveBy(delta)
             /\ storage'["transactions"] = <<transactions'>>
             /\ storage'["accounts"] = <<accounts'>> ]_vars

====
